---- MODULE Spec2Model ----
(***************************************************************************)
(* Model of prism_client.py: the pool-filling portfolio builder            *)
(* (build_pool_filling_portfolio and its helpers) and the module-level     *)
(* main loop that fetches, parses, prices, builds and submits.            *)
(*                                                                         *)
(* Dollar amounts are exact rationals [n, d] (the code uses binary floats; *)
(* the model abstracts from rounding error).  Free-text strings are        *)
(* sequences of one-character strings so that lower() and upper() are      *)
(* computed character by character.  A price of 0 stands for "no price":   *)
(* prices.get(t) is falsy both for a missing key and for 0.                *)
(***************************************************************************)
EXTENDS Integers, Sequences, FiniteSets, TLC

VARIABLES
    pc,                        \* position in the module-level loop; "pure",
                               \* "once", "twice" for the builder on its own
    run,                       \* number of loop iterations started
    investor_data,             \* parsed investor record
    live_prices,               \* ticker -> price (0 = no price)
    final_budget_allocations,  \* dict ticker -> dollars, as a sequence of pairs
    shares,                    \* final_portfolio after step 6 (before step 7)
    final_portfolio,           \* the list build_pool_filling_portfolio returns
    prev_portfolio,            \* the list the previous evaluation returned
    bodies,                    \* kind of the last 200 body per endpoint
    printed,                   \* how safe_print_json printed each stage
    info_calls, request_calls, submit_calls,   \* network operations issued
    iter_calls                 \* the same, within the current loop iteration

vars == <<pc, run, investor_data, live_prices, final_budget_allocations,
          shares, final_portfolio, prev_portfolio, bodies, printed,
          info_calls, request_calls, submit_calls, iter_calls>>

-----------------------------------------------------------------------------
(* Bounds of the model *)

MaxInterests == 2
MaxAvoid == 2
MaxSeed == 1
MaxRuns == 2

-----------------------------------------------------------------------------
(* Generic helpers *)

Range(s) == {s[i] : i \in DOMAIN s}

RECURSIVE GCD(_, _)
GCD(a, b) == IF b = 0 THEN a ELSE GCD(b, a % b)

LCM(a, b) == (a \div GCD(a, b)) * b

\* exact dollars: the fraction n/d in lowest terms
Rat(n, d) == IF n = 0 THEN [n |-> 0, d |-> 1]
             ELSE LET g == GCD(n, d) IN [n |-> n \div g, d |-> d \div g]

Zero == [n |-> 0, d |-> 1]

\* a + b
RAdd(a, b) ==
    IF a.n = 0 THEN b
    ELSE LET l == LCM(a.d, b.d) IN Rat(a.n * (l \div a.d) + b.n * (l \div b.d), l)

\* a / k
RDivInt(a, k) == Rat(a.n, a.d * k)

\* a >= p
RGeqInt(a, p) == a.n >= p * a.d

\* mutant: rounds the share count up
RFloorDivInt_RoundUp(a, p) == (a.n + a.d * p - 1) \div (a.d * p)

\* int(a // p)
RFloorDivInt(a, p) == a.n \div (a.d * p)

-----------------------------------------------------------------------------
(* Strings as character sequences: str.lower(), str.upper() *)

LowerAlphabet == <<"a","b","c","d","e","f","g","h","i","j","k","l","m",
                   "n","o","p","q","r","s","t","u","v","w","x","y","z">>
UpperAlphabet == <<"A","B","C","D","E","F","G","H","I","J","K","L","M",
                   "N","O","P","Q","R","S","T","U","V","W","X","Y","Z">>

Chars == Range(LowerAlphabet) \cup Range(UpperAlphabet) \cup {" "}

LowerChar ==
    [c \in Chars |->
        IF \E i \in DOMAIN UpperAlphabet : UpperAlphabet[i] = c
        THEN LowerAlphabet[CHOOSE i \in DOMAIN UpperAlphabet : UpperAlphabet[i] = c]
        ELSE c]

UpperChar ==
    [c \in Chars |->
        IF \E i \in DOMAIN LowerAlphabet : LowerAlphabet[i] = c
        THEN UpperAlphabet[CHOOSE i \in DOMAIN LowerAlphabet : LowerAlphabet[i] = c]
        ELSE c]

Lower(s) == [i \in DOMAIN s |-> LowerChar[s[i]]]
Upper(s) == [i \in DOMAIN s |-> UpperChar[s[i]]]

RECURSIVE Join(_)
Join(s) == IF s = <<>> THEN "" ELSE s[1] \o Join(Tail(s))

-----------------------------------------------------------------------------
(* Stock universe definitions *)

SECTOR_MAP ==
    [s \in {"finance", "real estate", "energy", "transportation", "tech",
            "trade", "gardening", "life sciences", "crypto"} |->
        CASE s = "finance"        -> <<"JPM", "BAC">>
          [] s = "real estate"    -> <<"PLD", "O">>
          [] s = "energy"         -> <<"XOM", "CVX">>
          [] s = "transportation" -> <<"UNP", "FDX">>
          [] s = "tech"           -> <<"AAPL", "MSFT">>
          [] s = "trade"          -> <<"WMT", "COST">>
          [] s = "gardening"      -> <<"WMT", "COST">>
          [] s = "life sciences"  -> <<"JNJ", "PFE">>
          [] s = "crypto"         -> <<"COIN", "MSTR">>]

FALLBACK_TICKERS == <<"PG", "KO", "JNJ", "XOM", "UNP">>

RiskLevels == <<"low", "medium", "high">>

RISK_RATED_STOCKS ==
    [r \in Range(RiskLevels) |->
        CASE r = "low"    -> <<"JNJ", "PG", "KO", "O", "WMT", "COST">>
          [] r = "medium" -> <<"AAPL", "MSFT", "JPM", "BAC", "XOM", "CVX",
                               "UNP", "FDX", "PFE", "PLD">>
          [] r = "high"   -> <<"COIN", "MSTR">>]

\* percentages: 0.70 is 70/100
BUDGET_ALLOCATIONS ==
    [p \in {"conservative", "moderate", "aggressive"} |->
        CASE p = "conservative" -> <<70, 30, 0>>
          [] p = "moderate"     -> <<30, 60, 10>>
          [] p = "aggressive"   -> <<10, 50, 40>>]

all_potential_tickers ==
    UNION {Range(SECTOR_MAP[s]) : s \in DOMAIN SECTOR_MAP}
    \cup Range(FALLBACK_TICKERS)
    \cup UNION {Range(RISK_RATED_STOCKS[r]) : r \in DOMAIN RISK_RATED_STOCKS}

all_stocks_by_risk == [r \in Range(RiskLevels) |-> Range(RISK_RATED_STOCKS[r])]

-----------------------------------------------------------------------------
(* Risk classification *)

AgeSenior == 60
AgeMiddle == 40
BudgetSmall == 20000
BudgetMedium == 75000

get_risk_profile(age, budget) ==
    IF age >= AgeSenior \/ budget < BudgetSmall THEN "conservative"
    ELSE IF age >= AgeMiddle \/ budget < BudgetMedium THEN "moderate"
    ELSE "aggressive"

\* risk_budgets[level] = budget * alloc_pcts[i]
risk_budgets(budget, risk_profile) ==
    [i \in DOMAIN RiskLevels |-> Rat(budget * BUDGET_ALLOCATIONS[risk_profile][i], 100)]

-----------------------------------------------------------------------------
(* Veto list and interest set *)

final_avoid_tickers(avoid_list) ==
    LET avoid_set == {Lower(a) : a \in avoid_list}
    IN  UNION {IF Join(item) \in DOMAIN SECTOR_MAP
               THEN Range(SECTOR_MAP[Join(item)])
               ELSE {Join(Upper(item))} : item \in avoid_set}

interest_tickers(interests) ==
    LET interest_set == {Join(Lower(i)) : i \in interests}
    IN  UNION {IF sector \in interest_set THEN Range(SECTOR_MAP[sector]) ELSE {}
               : sector \in DOMAIN SECTOR_MAP}

\* mutant: the veto list is not taken off the interest-matched candidates
stocks_to_buy_VetoDropped(risk_level, interest, avoid) ==
    LET matched == all_stocks_by_risk[risk_level] \cap interest
    IN  IF matched # {} THEN matched
        ELSE all_stocks_by_risk[risk_level] \ avoid

\* mutant: no fallback to the whole pool
stocks_to_buy_NoFallback(risk_level, interest, avoid) ==
    (all_stocks_by_risk[risk_level] \cap interest) \ avoid

\* the candidates of one risk pool: interest-matched first, else the whole pool
stocks_to_buy(risk_level, interest, avoid) ==
    LET matched == (all_stocks_by_risk[risk_level] \cap interest) \ avoid
    IN  IF matched # {} THEN matched
        ELSE all_stocks_by_risk[risk_level] \ avoid

-----------------------------------------------------------------------------
(* Iteration order of a Python set of strings: it depends on the hash seed  *)
(* of the process.  seed picks one order out of a bounded family: the       *)
(* tickers sorted by (index * multiplier) modulo a prime.                   *)

TickerList == RISK_RATED_STOCKS["low"] \o RISK_RATED_STOCKS["medium"]
              \o RISK_RATED_STOCKS["high"]

OrderKey(i, seed) ==
    (i * (IF seed = 0 THEN 1 ELSE Len(TickerList) + 1 - seed)) % (Len(TickerList) + 1)

RECURSIVE SortedIndices(_, _)
SortedIndices(I, seed) ==
    IF I = {} THEN <<>>
    ELSE LET first == CHOOSE i \in I : \A j \in I : OrderKey(i, seed) <= OrderKey(j, seed)
         IN  <<first>> \o SortedIndices(I \ {first}, seed)

SeedOrder ==
    [seed \in 0..MaxSeed |->
        LET idx == SortedIndices(DOMAIN TickerList, seed)
        IN  [k \in DOMAIN idx |-> TickerList[idx[k]]]]

IterOrder(S, seed) == SelectSeq(SeedOrder[seed], LAMBDA t : t \in S)

\* the low pool starting its iteration at position rot + 1
LowOrder(rot) ==
    LET low == RISK_RATED_STOCKS["low"]
    IN  [i \in DOMAIN low |-> low[((i - 1 + rot) % Len(low)) + 1]]

-----------------------------------------------------------------------------
(* Python dict with insertion order: a sequence of <<key, value>> pairs *)

DictKeys(d) == {d[i][1] : i \in DOMAIN d}

DictGet(d, k, default) ==
    IF \E i \in DOMAIN d : d[i][1] = k
    THEN d[CHOOSE i \in DOMAIN d : d[i][1] = k][2]
    ELSE default

DictSet(d, k, v) ==
    IF \E i \in DOMAIN d : d[i][1] = k
    THEN [i \in DOMAIN d |-> IF d[i][1] = k THEN <<k, v>> ELSE d[i]]
    ELSE Append(d, <<k, v>>)

-----------------------------------------------------------------------------
(* Pool filling *)

RECURSIVE CreditEach(_, _, _)
CreditEach(budget_allocations, tickers, alloc_per_ticker) ==
    IF tickers = <<>> THEN budget_allocations
    ELSE CreditEach(DictSet(budget_allocations, Head(tickers),
                            RAdd(DictGet(budget_allocations, Head(tickers), Zero),
                                 alloc_per_ticker)),
                    Tail(tickers), alloc_per_ticker)

\* mutant: every candidate is credited the whole budget of the pool
distribute_budget_NoSplit(budget_allocations, tickers, budget) ==
    IF tickers = <<>> THEN budget_allocations
    ELSE CreditEach(budget_allocations, tickers, budget)

\* tickers: the candidate set in its iteration order
distribute_budget(budget_allocations, tickers, budget) ==
    IF tickers = <<>> THEN budget_allocations
    ELSE CreditEach(budget_allocations, tickers, RDivInt(budget, Len(tickers)))

\* one pass of the loop over the risk levels
FillPool(allocations, risk_level, budget_for_level, interest, avoid, seed) ==
    IF budget_for_level.n <= 0 THEN allocations
    ELSE IF stocks_to_buy(risk_level, interest, avoid) = {} THEN allocations
    ELSE distribute_budget(allocations,
                           IterOrder(stocks_to_buy(risk_level, interest, avoid), seed),
                           budget_for_level)

PoolFilling(budgets, interest, avoid, seed) ==
    FillPool(FillPool(FillPool(<<>>, RiskLevels[1], budgets[1], interest, avoid, seed),
                      RiskLevels[2], budgets[2], interest, avoid, seed),
             RiskLevels[3], budgets[3], interest, avoid, seed)

-----------------------------------------------------------------------------
(* Share conversion and emergency fallback *)

Position(t, q) == [ticker |-> t, quantity |-> q]

\* mutant: a position is recorded whatever the share count
RECURSIVE ConvertShares_NoGuard(_, _)
ConvertShares_NoGuard(allocations, prices) ==
    IF allocations = <<>> THEN <<>>
    ELSE LET ticker == Head(allocations)[1]
             allocation == Head(allocations)[2]
             price == prices[ticker]
             rest == ConvertShares_NoGuard(Tail(allocations), prices)
         IN  IF price = 0 THEN rest
             ELSE <<Position(ticker, RFloorDivInt(allocation, price))>> \o rest

\* mutant: the loop ends at the first ticker without a price
RECURSIVE ConvertShares_StopAtNoPrice(_, _)
ConvertShares_StopAtNoPrice(allocations, prices) ==
    IF allocations = <<>> THEN <<>>
    ELSE LET ticker == Head(allocations)[1]
             allocation == Head(allocations)[2]
             price == prices[ticker]
             rest == ConvertShares_StopAtNoPrice(Tail(allocations), prices)
         IN  IF price = 0 THEN <<>>
             ELSE IF RGeqInt(allocation, price) /\ RFloorDivInt(allocation, price) > 0
                  THEN <<Position(ticker, RFloorDivInt(allocation, price))>> \o rest
                  ELSE rest

RECURSIVE ConvertShares(_, _)
ConvertShares(allocations, prices) ==
    IF allocations = <<>> THEN <<>>
    ELSE LET ticker == Head(allocations)[1]
             allocation == Head(allocations)[2]
             price == prices[ticker]
             rest == ConvertShares(Tail(allocations), prices)
         IN  IF price = 0 THEN rest
             ELSE IF RGeqInt(allocation, price) /\ RFloorDivInt(allocation, price) > 0
                  THEN <<Position(ticker, RFloorDivInt(allocation, price))>> \o rest
                  ELSE rest

\* mutant: the price is not compared with the budget
RECURSIVE FirstAffordable_NoBudgetCheck(_, _, _, _)
FirstAffordable_NoBudgetCheck(order, budget, avoid, prices) ==
    IF order = <<>> THEN <<>>
    ELSE IF Head(order) \notin avoid /\ prices[Head(order)] # 0
         THEN <<Position(Head(order), 1)>>
         ELSE FirstAffordable_NoBudgetCheck(Tail(order), budget, avoid, prices)

RECURSIVE FirstAffordable(_, _, _, _)
FirstAffordable(order, budget, avoid, prices) ==
    IF order = <<>> THEN <<>>
    ELSE IF Head(order) \notin avoid /\ prices[Head(order)] # 0
            /\ budget >= prices[Head(order)]
         THEN <<Position(Head(order), 1)>>
         ELSE FirstAffordable(Tail(order), budget, avoid, prices)

\* mutant: the test for an empty portfolio is inverted
EmergencyFallback_InvertedGuard(portfolio, order, budget, avoid, prices) ==
    IF portfolio # <<>> THEN FirstAffordable(order, budget, avoid, prices)
    ELSE portfolio

\* order: the low pool in its iteration order
EmergencyFallback(portfolio, order, budget, avoid, prices) ==
    IF portfolio = <<>> THEN FirstAffordable(order, budget, avoid, prices)
    ELSE portfolio

\* seed: iteration order of the candidate sets; rot: of the low pool in
\* step 7.  The result carries the locals of the function next to the
\* returned list: the dollar allocations, and the list as it is after step 6.
build_pool_filling_portfolio(investor, prices, seed, rot) ==
    LET avoid == final_avoid_tickers(investor.avoid_list)
        allocations ==
            PoolFilling(risk_budgets(investor.budget,
                                     get_risk_profile(investor.age, investor.budget)),
                        interest_tickers(investor.interests), avoid, seed)
        converted == ConvertShares(allocations, prices)
    IN  [allocations |-> allocations,
         shares |-> converted,
         portfolio |-> EmergencyFallback(converted, LowOrder(rot), investor.budget,
                                         avoid, prices)]

-----------------------------------------------------------------------------
(* Remote service, printing, submission *)

\* what _request can return: a failure, or a 200 with a body of some kind
BodyKinds == {"json_message", "json_empty_message", "json_other", "not_json"}

Responses == {[ok |-> FALSE, body |-> "failure"]}
             \cup {[ok |-> TRUE, body |-> k] : k \in BodyKinds}

\* safe_print_json on a str: pretty-printed when json.loads accepts it, else raw
safe_print_json(body) == IF body = "not_json" THEN "raw" ELSE "pretty"

HasDuplicateTickers(weighted_stocks) ==
    Cardinality({weighted_stocks[i].ticker : i \in DOMAIN weighted_stocks})
        # Len(weighted_stocks)

-----------------------------------------------------------------------------
(* Inputs *)

DefaultAge == 40
DefaultBudget == 10000
MockPrice == 100

DefaultInvestor ==
    [age |-> DefaultAge, budget |-> DefaultBudget, interests |-> {}, avoid_list |-> {}]

\* <<age, budget>>: every risk profile, and budgets of 0 and of a few dollars
AgesAndBudgets == {<<30, 0>>, <<65, 100>>, <<45, 30000>>, <<30, 30000>>,
                   <<30, 100000>>, <<65, 100000>>}

InterestVocab == { <<"T","e","c","h">>, <<"T","R","A","D","E">>,
                   <<"g","a","r","d","e","n","i","n","g">> }
AvoidVocab == { <<"T","e","c","h">>, <<"c","r","y","p","t","o">>, <<"j","n","j">> }

Investors ==
    {[age |-> ab[1], budget |-> ab[2], interests |-> i, avoid_list |-> a] :
        ab \in AgesAndBudgets,
        i \in {S \in SUBSET InterestVocab : Cardinality(S) <= MaxInterests},
        a \in {S \in SUBSET AvoidVocab : Cardinality(S) <= MaxAvoid}}

\* one price for KO and WMT, one for JNJ (jnj < 0: the same), none for the
\* rest of the low pool, one for the other pools; 0 is "no price"
PriceMap(low, other, jnj) ==
    [t \in all_potential_tickers |->
        IF t = "JNJ" THEN (IF jnj >= 0 THEN jnj ELSE low)
        ELSE IF t \in {"KO", "WMT"} THEN low
        ELSE IF t \in all_stocks_by_risk["low"] THEN 0
        ELSE other]

PriceMaps ==
    {PriceMap(l, o, j) : l \in {0, 40, 900}, o \in {0, 40}, j \in {-1, 0, 7}}

NoPrices == [t \in all_potential_tickers |-> 0]

\* the investors the main loop is explored with; the builder is explored
\* over all of Investors under SpecBuild
ParsedInvestors ==
    {DefaultInvestor} \cup {i \in Investors : i.interests = {} /\ i.avoid_list = {}}

-----------------------------------------------------------------------------
(* State *)

NoCalls == [info |-> 0, request |-> 0, submit |-> 0]
NoBodies == [info |-> "none", request |-> "none", submit |-> "none"]
NothingPrinted == [info |-> "none", context |-> "none", investor |-> "none",
                   portfolio |-> "none", response |-> "none"]

InitData ==
    /\ final_budget_allocations = <<>>
    /\ shares = <<>>
    /\ final_portfolio = <<>>
    /\ prev_portfolio = <<>>
    /\ bodies = NoBodies
    /\ printed = NothingPrinted
    /\ info_calls = 0
    /\ request_calls = 0
    /\ submit_calls = 0
    /\ iter_calls = NoCalls
    /\ run = 0

\* the program at the top of the module-level loop
Init ==
    /\ pc = "loop"
    /\ investor_data = DefaultInvestor
    /\ live_prices = NoPrices
    /\ InitData

\* the builder alone, on any investor record and price map
InitBuild ==
    /\ pc = "pure"
    /\ investor_data \in Investors
    /\ live_prices \in PriceMaps
    /\ InitData

-----------------------------------------------------------------------------
(* The builder as an operation *)

\* one call of build_pool_filling_portfolio(investor_data, live_prices).  The
\* order of the low pool only matters when step 6 leaves the list empty:
\* step 7 is then taken once for every order the low pool can have.
CallBuilder ==
    \E seed \in 0..MaxSeed :
        LET r == build_pool_filling_portfolio(investor_data, live_prices, seed, 0)
        IN  /\ final_budget_allocations' = r.allocations
            /\ shares' = r.shares
            /\ IF r.shares # <<>>
               THEN final_portfolio' = r.portfolio
               ELSE \E rot \in 0..(Len(RISK_RATED_STOCKS["low"]) - 1) :
                       final_portfolio' =
                           EmergencyFallback(r.shares, LowOrder(rot),
                                             investor_data.budget,
                                             final_avoid_tickers(investor_data.avoid_list),
                                             live_prices)

Evaluate ==
    /\ pc = "pure"
    /\ CallBuilder
    /\ pc' = "once"
    /\ UNCHANGED <<run, investor_data, live_prices, prev_portfolio, bodies, printed,
                   info_calls, request_calls, submit_calls, iter_calls>>

\* a second evaluation on the same input; the first result is kept
EvaluateAgain ==
    /\ pc = "once"
    /\ CallBuilder
    /\ prev_portfolio' = final_portfolio
    /\ pc' = "twice"
    /\ UNCHANGED <<run, investor_data, live_prices, bodies, printed,
                   info_calls, request_calls, submit_calls, iter_calls>>

\* the builder evaluated once on every input
NextBuild == Evaluate

SpecBuild == InitBuild /\ [][NextBuild]_vars

\* the builder evaluated twice on every input
NextRepeat == Evaluate \/ EvaluateAgain

SpecRepeat == InitBuild /\ [][NextRepeat]_vars

-----------------------------------------------------------------------------
(* The module-level loop *)

\* while True: load config.yaml and validate the token.  Names bound by the
\* previous iteration are rebound before they are read again, so their old
\* values are dropped here.
LoadConfig ==
    /\ pc = "loop"
    /\ run < MaxRuns
    /\ \E valid \in BOOLEAN :
          pc' = IF valid THEN "info" ELSE "exited"
    /\ run' = run + 1
    /\ iter_calls' = NoCalls
    /\ bodies' = NoBodies
    /\ printed' = NothingPrinted
    /\ investor_data' = DefaultInvestor
    /\ live_prices' = NoPrices
    /\ final_budget_allocations' = <<>>
    /\ shares' = <<>>
    /\ final_portfolio' = <<>>
    /\ UNCHANGED <<prev_portfolio, info_calls, request_calls, submit_calls>>

\* 1. Get Team Info
FetchTeamInfo ==
    /\ pc = "info"
    /\ \E r \in Responses :
          /\ bodies' = [bodies EXCEPT !.info = r.body]
          /\ printed' = IF r.ok THEN [printed EXCEPT !.info = safe_print_json(r.body)]
                        ELSE printed
    /\ info_calls' = info_calls + 1
    /\ iter_calls' = [iter_calls EXCEPT !.info = @ + 1]
    /\ pc' = "context"
    /\ UNCHANGED <<run, investor_data, live_prices, final_budget_allocations, shares,
                   final_portfolio, prev_portfolio, request_calls, submit_calls>>

\* mutant: a failed GET /request is tried again
FetchContext_Retry ==
    /\ pc = "context"
    /\ \E r \in Responses :
          /\ bodies' = [bodies EXCEPT !.request = r.body]
          /\ printed' = IF r.ok THEN [printed EXCEPT !.context = safe_print_json(r.body)]
                        ELSE printed
          /\ pc' = IF ~r.ok THEN "context"
                   ELSE IF r.body \in {"not_json", "json_other"} THEN "crashed"
                   ELSE IF r.body = "json_empty_message" THEN "exited"
                   ELSE "parse"
    /\ request_calls' = request_calls + 1
    /\ iter_calls' = [iter_calls EXCEPT !.request = @ + 1]
    /\ UNCHANGED <<run, investor_data, live_prices, final_budget_allocations, shares,
                   final_portfolio, prev_portfolio, info_calls, submit_calls>>

\* 2. Get Investor Context, then json.loads(context_json).get("message", "")
FetchContext ==
    /\ pc = "context"
    /\ \E r \in Responses :
          /\ bodies' = [bodies EXCEPT !.request = r.body]
          /\ printed' = IF r.ok THEN [printed EXCEPT !.context = safe_print_json(r.body)]
                        ELSE printed
          /\ pc' = IF ~r.ok THEN "exited"
                   ELSE IF r.body \in {"not_json", "json_other"} THEN "crashed"
                   ELSE IF r.body = "json_empty_message" THEN "exited"
                   ELSE "parse"
    /\ request_calls' = request_calls + 1
    /\ iter_calls' = [iter_calls EXCEPT !.request = @ + 1]
    /\ UNCHANGED <<run, investor_data, live_prices, final_budget_allocations, shares,
                   final_portfolio, prev_portfolio, info_calls, submit_calls>>

\* 3. Parse Context
ParseContext ==
    /\ pc = "parse"
    /\ investor_data' \in ParsedInvestors
    /\ printed' = [printed EXCEPT !.investor = "pretty"]
    /\ pc' = "prices"
    /\ UNCHANGED <<run, live_prices, final_budget_allocations, shares, final_portfolio,
                   prev_portfolio, bodies, info_calls, request_calls,
                   submit_calls, iter_calls>>

\* 4. Get Prices: no price at all is replaced by mock prices
FetchPrices ==
    /\ pc = "prices"
    /\ \E fetched \in PriceMaps :
          live_prices' = IF fetched = NoPrices
                         THEN [t \in all_potential_tickers |-> MockPrice]
                         ELSE fetched
    /\ pc' = "build"
    /\ UNCHANGED <<run, investor_data, final_budget_allocations, shares, final_portfolio,
                   prev_portfolio, bodies, printed, info_calls, request_calls,
                   submit_calls, iter_calls>>

\* 5. Build Portfolio
BuildPortfolio ==
    /\ pc = "build"
    /\ CallBuilder
    /\ printed' = [printed EXCEPT !.portfolio = "pretty"]
    /\ pc' = "submit"
    /\ UNCHANGED <<run, investor_data, live_prices, prev_portfolio, bodies,
                   info_calls, request_calls, submit_calls, iter_calls>>

\* 6. Submit (DRY_RUN is False), then "--- Run complete ---"
SubmitPortfolio ==
    /\ pc = "submit"
    /\ IF final_portfolio = <<>> \/ HasDuplicateTickers(final_portfolio)
       THEN UNCHANGED <<bodies, printed, submit_calls, iter_calls>>
       ELSE /\ \E r \in Responses :
                 /\ bodies' = [bodies EXCEPT !.submit = r.body]
                 /\ printed' = IF r.ok
                               THEN [printed EXCEPT !.response = safe_print_json(r.body)]
                               ELSE printed
            /\ submit_calls' = submit_calls + 1
            /\ iter_calls' = [iter_calls EXCEPT !.submit = @ + 1]
    /\ pc' = "complete"
    /\ UNCHANGED <<run, investor_data, live_prices, final_budget_allocations, shares,
                   final_portfolio, prev_portfolio, info_calls, request_calls>>

\* the end of the loop body: while True starts the next iteration
LoopBack ==
    /\ pc = "complete"
    /\ pc' = "loop"
    /\ UNCHANGED <<run, investor_data, live_prices, final_budget_allocations, shares,
                   final_portfolio, prev_portfolio, bodies, printed,
                   info_calls, request_calls, submit_calls, iter_calls>>

Next ==
    \/ LoadConfig
    \/ FetchTeamInfo
    \/ FetchContext
    \/ ParseContext
    \/ FetchPrices
    \/ BuildPortfolio
    \/ SubmitPortfolio
    \/ LoopBack

Spec == Init /\ [][Next]_vars

-----------------------------------------------------------------------------
(* Properties of build_pool_filling_portfolio, checked under SpecBuild and,  *)
(* for two evaluations, under SpecRepeat                                    *)

Built == pc \in {"once", "twice"}

\* the resolved exclusion set and the interest-matched tickers of the input
ExcludedOf == [a \in SUBSET AvoidVocab |-> final_avoid_tickers(a)]

InterestingOf == [i \in SUBSET InterestVocab |-> interest_tickers(i)]

Excluded == ExcludedOf[investor_data.avoid_list]

Interesting == InterestingOf[investor_data.interests]

Bought == {final_portfolio[i].ticker : i \in DOMAIN final_portfolio}

LowPool == Range(RISK_RATED_STOCKS["low"])

TierBudget(i) ==
    Rat(investor_data.budget
        * BUDGET_ALLOCATIONS[get_risk_profile(investor_data.age, investor_data.budget)][i],
        100)

\* the candidate set of pool i as the claims describe it
Candidates(i) ==
    LET pool == Range(RISK_RATED_STOCKS[RiskLevels[i]])
    IN  IF (pool \cap Interesting) \ Excluded # {}
        THEN (pool \cap Interesting) \ Excluded
        ELSE pool \ Excluded

\* the budget of pool i if the pool is not skipped, else nothing
KeptBudget(i) ==
    IF TierBudget(i).n > 0 /\ Candidates(i) # {} THEN TierBudget(i) ELSE Zero

Allocation(t) == DictGet(final_budget_allocations, t, Zero)

TotalAllocated(allocations) ==
    LET sum[k \in 0..Len(allocations)] ==
            IF k = 0 THEN Zero ELSE RAdd(sum[k - 1], allocations[k][2])
    IN  sum[Len(allocations)]

TotalCost(portfolio) ==
    LET sum[k \in 0..Len(portfolio)] ==
            IF k = 0 THEN 0
            ELSE sum[k - 1] + portfolio[k].quantity * live_prices[portfolio[k].ticker]
    IN  sum[Len(portfolio)]

Qualifies(t) ==
    /\ t \in LowPool
    /\ t \notin Excluded
    /\ live_prices[t] > 0
    /\ live_prices[t] <= investor_data.budget

\* C1: no ticker of the returned portfolio is in the resolved exclusion set,
\* on the interest-matched path, the whole-tier fallback and the emergency
\* fallback alike.
C1_NoExcludedTicker ==
    Built => Bought \cap Excluded = {}

\* an interest-matched and excluded ticker exists, and something was bought
C1_Witness ==
    /\ Built
    /\ Interesting \cap Excluded # {}
    /\ final_portfolio # <<>>

\* C2: the returned tickers are pairwise distinct and every quantity is a
\* positive integer, so send_portfolio's duplicate check never rejects it.
C2_DistinctPositive ==
    Built =>
        /\ ~HasDuplicateTickers(final_portfolio)
        /\ \A i \in DOMAIN final_portfolio :
              final_portfolio[i].quantity \in Nat \ {0}

\* WMT, listed under "trade" and under "gardening", both named as interests
C2_Witness ==
    /\ Built
    /\ Cardinality({Join(Lower(i)) : i \in investor_data.interests}
                   \cap {"trade", "gardening"}) = 2
    /\ "WMT" \in Bought

\* C3 as stated: quantity * price <= accumulated allocation for every pair of
\* every returned portfolio, the emergency fallback included.
C3_SpentWithinAllocation ==
    Built =>
        \A i \in DOMAIN final_portfolio :
            LET p == final_portfolio[i]
            IN  p.quantity * live_prices[p.ticker] * Allocation(p.ticker).d
                    <= Allocation(p.ticker).n

\* C3 amended: the bound by the allocation holds when step 6 yields a
\* position; the emergency share is bound by the whole budget instead.
C3_SpentWithinAllocationOrBudget ==
    Built =>
        \A i \in DOMAIN final_portfolio :
            LET p == final_portfolio[i]
            IN  IF shares # <<>>
                THEN p.quantity * live_prices[p.ticker] * Allocation(p.ticker).d
                         <= Allocation(p.ticker).n
                ELSE p.quantity * live_prices[p.ticker] <= investor_data.budget

\* step 6 bought several shares of a ticker, leaving part of its allocation
C3_Witness ==
    /\ Built
    /\ shares # <<>>
    /\ \E i \in DOMAIN final_portfolio :
          LET p == final_portfolio[i]
          IN  /\ p.quantity > 1
              /\ p.quantity * live_prices[p.ticker] * Allocation(p.ticker).d
                     < Allocation(p.ticker).n

\* C4 as stated: budget > 0, a tier with a nonzero fraction and a known price
\* for one of its tickers imply a non-empty portfolio.
C4_NonEmpty ==
    (/\ Built
     /\ investor_data.budget > 0
     /\ \E i \in DOMAIN RiskLevels :
           /\ TierBudget(i).n > 0
           /\ \E t \in Range(RISK_RATED_STOCKS[RiskLevels[i]]) : live_prices[t] > 0)
    => final_portfolio # <<>>

\* C4 amended: the known price must be affordable: at most the dollars
\* credited to that ticker, or at most the budget for a low-tier ticker that
\* is not excluded.
C4_NonEmptyWhenAffordable ==
    (/\ Built
     /\ investor_data.budget > 0
     /\ \/ \E i \in DOMAIN RiskLevels :
              /\ TierBudget(i).n > 0
              /\ \E t \in Candidates(i) :
                    /\ live_prices[t] > 0
                    /\ live_prices[t] * TierBudget(i).d * Cardinality(Candidates(i))
                           <= TierBudget(i).n
        \/ \E t \in LowPool : Qualifies(t))
    => final_portfolio # <<>>

\* nothing was affordable within its allocation, yet a low-tier share was
C4_Witness ==
    /\ Built
    /\ investor_data.budget > 0
    /\ shares = <<>>
    /\ final_portfolio # <<>>

\* C5: with no position after step 6 the result is empty or one share of a
\* qualifying low-tier ticker, and empty only if none qualifies; with a
\* position after step 6 the fallback adds nothing; budget 0 gives the empty
\* list.
C5_EmergencyFallback ==
    Built =>
        /\ shares = <<>> =>
              /\ \/ final_portfolio = <<>>
                 \/ /\ Len(final_portfolio) = 1
                    /\ final_portfolio[1].quantity = 1
                    /\ Qualifies(final_portfolio[1].ticker)
              /\ final_portfolio = <<>> => ~ \E t \in LowPool : Qualifies(t)
        /\ shares # <<>> => final_portfolio = shares
        /\ investor_data.budget = 0 => final_portfolio = <<>>

\* the fallback bought one share, and its scan had to pass over a low-tier
\* ticker that is excluded, has no price or costs more than the budget
C5_Witness ==
    /\ Built
    /\ shares = <<>>
    /\ Len(final_portfolio) = 1
    /\ \E t \in LowPool : ~Qualifies(t)

\* C8 as stated: outside the emergency fallback two evaluations on the same
\* input return the identical ordered list.
C8_SameList ==
    (pc = "twice" /\ shares # <<>>) => final_portfolio = prev_portfolio

\* C8 amended: they return the same pairs, possibly in another order.
C8_SamePairs ==
    (pc = "twice" /\ shares # <<>>) =>
        /\ Range(final_portfolio) = Range(prev_portfolio)
        /\ Len(final_portfolio) = Len(prev_portfolio)

\* two evaluations whose candidate sets were iterated in different orders
C8_Witness ==
    /\ pc = "twice"
    /\ shares # <<>>
    /\ final_portfolio # prev_portfolio

\* C9: every tier with a positive budget credits budget / count to each
\* ticker of its one candidate set and nothing to its other tickers; a tier
\* with no budget or no candidate credits nothing, and its budget goes
\* nowhere else: the allocations sum to the budgets of the tiers not skipped.
C9_PoolFilling ==
    Built =>
        /\ \A i \in DOMAIN RiskLevels :
              LET pool == Range(RISK_RATED_STOCKS[RiskLevels[i]])
                  credited == IF TierBudget(i).n > 0 THEN Candidates(i) ELSE {}
              IN  /\ \A t \in credited :
                        Allocation(t) = RDivInt(TierBudget(i), Cardinality(credited))
                  /\ \A t \in pool \ credited : t \notin DictKeys(final_budget_allocations)
        /\ TotalAllocated(final_budget_allocations)
              = RAdd(KeptBudget(1), RAdd(KeptBudget(2), KeptBudget(3)))

\* a tier with a positive budget and every ticker excluded, next to a tier
\* that fell back to its whole pool and a tier filled by interest
C9_Witness ==
    /\ Built
    /\ \E i \in DOMAIN RiskLevels : TierBudget(i).n > 0 /\ Candidates(i) = {}
    /\ \E i \in DOMAIN RiskLevels :
          /\ TierBudget(i).n > 0
          /\ Candidates(i) # {}
          /\ Candidates(i) \cap Interesting = {}
    /\ \E i \in DOMAIN RiskLevels :
          /\ TierBudget(i).n > 0
          /\ Candidates(i) # {}
          /\ Candidates(i) \subseteq Interesting

\* C10: the returned portfolio costs at most the investor's budget.
C10_WithinBudget ==
    Built => TotalCost(final_portfolio) <= investor_data.budget

\* several tickers bought, from more than one pool
C10_Witness ==
    /\ Built
    /\ Bought \cap LowPool # {}
    /\ Bought \ LowPool # {}
    /\ TotalCost(final_portfolio) > 0

-----------------------------------------------------------------------------
(* Properties of the main loop, checked under Spec *)

\* C6 as stated: one execution issues at most one GET /info, one
\* GET /request and one POST /submit, and then stops.
C6_OncePerExecution ==
    /\ info_calls <= 1
    /\ request_calls <= 1
    /\ submit_calls <= 1

\* C6 amended: within one iteration of the module-level loop the steps run
\* in order and each network operation is issued at most once, whether it
\* succeeds or fails; the loop then starts over instead of stopping.
C6_OncePerIteration ==
    /\ pc = "info" => iter_calls = NoCalls
    /\ pc = "context" => iter_calls = [info |-> 1, request |-> 0, submit |-> 0]
    /\ pc \in {"parse", "prices", "build", "submit"} =>
          iter_calls = [info |-> 1, request |-> 1, submit |-> 0]
    /\ pc \in {"complete", "crashed"} =>
          /\ iter_calls.info = 1
          /\ iter_calls.request = 1
          /\ iter_calls.submit <= 1
    /\ iter_calls.info <= 1 /\ iter_calls.request <= 1 /\ iter_calls.submit <= 1
    /\ info_calls <= run /\ request_calls <= run /\ submit_calls <= run

\* a second iteration that submitted, after a first one that did
C6_Witness ==
    /\ pc = "complete"
    /\ run = 2
    /\ iter_calls.submit = 1
    /\ submit_calls = 2

\* C7: a 200 response whose body is not valid JSON is printed as raw text
\* and the run does not end with an uncaught exception, for GET /info,
\* GET /request and POST /submit.
C7_MalformedJsonRecovered ==
    /\ bodies.info = "not_json" => printed.info = "raw" /\ pc # "crashed"
    /\ bodies.request = "not_json" => printed.context = "raw" /\ pc # "crashed"
    /\ bodies.submit = "not_json" => printed.response = "raw" /\ pc # "crashed"

====
